---- MODULE Spec2Model ----
(***************************************************************************)
(* Model of recipe_parser.py: RecipeParser.parse_recipe with its fetch,    *)
(* its Schema.org JSON-LD path and its HTML fallback.                      *)
(*                                                                         *)
(* Text is a sequence of one-character strings, so that strip(), lower()   *)
(* and the substring / regular-expression tests are computed, not assumed. *)
(* A Python value is a tagged record [t, s, v], s a text and v a sequence  *)
(* of values:                                                              *)
(*   str  : s is the text            int, None : nothing                   *)
(*   list : v is the elements        dict : v is the members, in insertion *)
(*   order, a member being [t = "member", s = the key, v = <<the value>>]  *)
(***************************************************************************)
EXTENDS Integers, Sequences, FiniteSets, TLC

VARIABLES pc, response, data, ran, outcome

vars == <<pc, response, data, ran, outcome>>

(* ----------------------------- bounds ---------------------------------- *)

MaxIngredients == 2
MaxInstructions == 2
MaxNodes == 2

(* ------------------------------ text ----------------------------------- *)

Whitespace == {" ", "\n", "\t"}

UpperCase == <<"A","B","C","D","E","F","G","H","I","J","K","L","M",
               "N","O","P","Q","R","S","T","U","V","W","X","Y","Z">>

LowerCase == <<"a","b","c","d","e","f","g","h","i","j","k","l","m",
               "n","o","p","q","r","s","t","u","v","w","x","y","z">>

SetMin(S) == CHOOSE m \in S : \A n \in S : m <= n

SetMax(S) == CHOOSE m \in S : \A n \in S : m >= n

\* str.strip(): drop leading and trailing whitespace
Strip(s) ==
    LET keep == {i \in DOMAIN s : s[i] \notin Whitespace}
    IN  IF keep = {} THEN <<>> ELSE SubSeq(s, SetMin(keep), SetMax(keep))

LowerChar(c) ==
    IF \E i \in DOMAIN UpperCase : UpperCase[i] = c
    THEN LowerCase[CHOOSE i \in DOMAIN UpperCase : UpperCase[i] = c]
    ELSE c

\* str.lower(), and what re.I does to the subject of a lower-case pattern
Lower(s) == [i \in DOMAIN s |-> LowerChar(s[i])]

\* sub occurs in s starting at position i
OccursAt(s, sub, i) ==
    /\ i >= 1
    /\ i + Len(sub) - 1 <= Len(s)
    /\ SubSeq(s, i, i + Len(sub) - 1) = sub

\* Python's  sub in s  for two strings
Contains(s, sub) == \E i \in 1..(Len(s) + 1) : OccursAt(s, sub, i)

\* re.search(r'a.*b', s): a, later on b, nothing but non-newlines between
ContainsThen(s, a, b) ==
    \E i \in 1..(Len(s) + 1) : \E j \in 1..(Len(s) + 1) :
        /\ OccursAt(s, a, i)
        /\ j >= i + Len(a)
        /\ OccursAt(s, b, j)
        /\ \A k \in (i + Len(a))..(j - 1) : s[k] # "\n"

RECURSIVE Concat(_)
Concat(ss) == IF ss = <<>> THEN <<>> ELSE Head(ss) \o Concat(Tail(ss))

RECURSIVE SelectIdx(_, _, _)
\* the indices i >= from of xs, in order, with P[i]
SelectIdx(n, from, P) ==
    IF from > n THEN <<>>
    ELSE IF P[from] THEN <<from>> \o SelectIdx(n, from + 1, P)
    ELSE SelectIdx(n, from + 1, P)

(* --------------------------- JSON values ------------------------------- *)

Str(s) == [t |-> "str", s |-> s, v |-> <<>>]

Num == [t |-> "num", s |-> <<>>, v |-> <<>>]

Null == [t |-> "null", s |-> <<>>, v |-> <<>>]

List(xs) == [t |-> "list", s |-> <<>>, v |-> xs]

Member(key, val) == [t |-> "member", s |-> key, v |-> <<val>>]

Dict(members) == [t |-> "dict", s |-> <<>>, v |-> members]

\* key in d
HasKey(d, key) == \E i \in DOMAIN d.v : d.v[i].s = key

\* d.get(key, default)
Get(d, key, default) ==
    IF HasKey(d, key)
    THEN d.v[SetMax({i \in DOMAIN d.v : d.v[i].s = key})].v[1]
    ELSE default

\* the keys of d, as iterating a dict yields them
Keys(d) == [i \in DOMAIN d.v |-> Str(d.v[i].s)]

(* ------------------------------ keys ----------------------------------- *)

K_type == <<"@","t","y","p","e">>

K_name == <<"n","a","m","e">>

K_description == <<"d","e","s","c","r","i","p","t","i","o","n">>

K_recipeIngredient ==
    <<"r","e","c","i","p","e","I","n","g","r","e","d","i","e","n","t">>

K_recipeInstructions ==
    <<"r","e","c","i","p","e","I","n","s","t","r","u","c","t","i","o","n","s">>

K_text == <<"t","e","x","t">>

T_Recipe == <<"R","e","c","i","p","e">>

T_recipe == <<"r","e","c","i","p","e">>

(* --------------------------- the result -------------------------------- *)

\* Recipe(name=..., description=..., ingredients=..., instructions=..., url=...)
Recipe(name, description, ingredients, instructions, url) ==
    [name |-> name, description |-> description,
     ingredients |-> ingredients, instructions |-> instructions, url |-> url]

\* the call returned r
Returned(r) == [kind |-> "Recipe", recipe |-> <<r>>]

\* the call raised an exception of class kind; nothing is returned
Raised(kind) == [kind |-> kind, recipe |-> <<>>]

Pending == [kind |-> "pending", recipe |-> <<>>]

(* ------------------ _parse_schema_recipe (lines 53-75) ----------------- *)

\* data.get(key, '').strip()
StrippedField(d, key) ==
    LET val == Get(d, key, Str(<<>>))
    IN  IF val.t = "str"
        THEN [err |-> "none", val |-> Str(Strip(val.s))]
        ELSE [err |-> "AttributeError", val |-> Str(<<>>)]

\* what  for i in val  yields
Iterate(val) ==
    CASE val.t = "list" -> [err |-> "none", val |-> val.v]
      [] val.t = "dict" -> [err |-> "none", val |-> Keys(val)]
      [] OTHER -> [err |-> "TypeError", val |-> <<>>]

\* [i.strip() for i in items]
StrippedAll(items) ==
    IF \E k \in DOMAIN items : items[k].t # "str"
    THEN [err |-> "AttributeError", val |-> <<>>]
    ELSE [err |-> "none", val |-> [k \in DOMAIN items |-> Str(Strip(items[k].s))]]

\* [i.strip() for i in items if i.strip()]
StrippedNonEmpty(items) ==
    IF \E k \in DOMAIN items : items[k].t # "str"
    THEN [err |-> "AttributeError", val |-> <<>>]
    ELSE LET idx == SelectIdx(Len(items), 1,
                        [k \in DOMAIN items |-> Strip(items[k].s) # <<>>])
         IN  [err |-> "none",
              val |-> [k \in DOMAIN idx |-> Str(Strip(items[idx[k]].s))]]

\* lines 58-61
SchemaIngredients(d) ==
    LET raw == Get(d, K_recipeIngredient, List(<<>>))
        it  == IF raw.t = "str" THEN [err |-> "none", val |-> <<raw>>]
               ELSE Iterate(raw)
    IN  IF it.err # "none" THEN it ELSE StrippedNonEmpty(it.val)

\* i.get('text', i) if isinstance(i, dict) else i
StepText(i) == IF i.t = "dict" THEN Get(i, K_text, i) ELSE i

\* lines 63-71
SchemaInstructions(d) ==
    LET raw == Get(d, K_recipeInstructions, List(<<>>))
        it  == CASE raw.t = "str" -> [err |-> "none", val |-> <<raw>>]
                 [] raw.t = "list" ->
                      [err |-> "none",
                       val |-> [k \in DOMAIN raw.v |-> StepText(raw.v[k])]]
                 [] OTHER -> Iterate(raw)
    IN  IF it.err # "none" THEN it ELSE StrippedNonEmpty(it.val)

\* _parse_schema_recipe(data, url): the Recipe, or the exception that escapes
parse_schema_recipe(d, url) ==
    LET name == StrippedField(d, K_name)
        description == StrippedField(d, K_description)
        ingredients == SchemaIngredients(d)
        instructions == SchemaInstructions(d)
    IN  CASE name.err # "none" -> Raised(name.err)
          [] description.err # "none" -> Raised(description.err)
          [] ingredients.err # "none" -> Raised(ingredients.err)
          [] instructions.err # "none" -> Raised(instructions.err)
          [] OTHER -> Returned(Recipe(name.val, description.val,
                                      ingredients.val, instructions.val, url))

(* ------------------- _parse_html_recipe (lines 77-132) ----------------- *)
(* The parsed page is the sequence of its elements in document order. An   *)
(* element is [tag, class, text, content, name, items]: content is the     *)
(* content attribute (<<>> when the element has none, <<c>> otherwise),    *)
(* name the name attribute, items the li / p / span children as            *)
(* [tag, text].                                                            *)

W_title == <<"t","i","t","l","e">>

W_ingredient == <<"i","n","g","r","e","d","i","e","n","t">>

W_instruction == <<"i","n","s","t","r","u","c","t","i","o","n">>

W_direction == <<"d","i","r","e","c","t","i","o","n">>

W_method == <<"m","e","t","h","o","d">>

\* element.text: the text of the element and of everything below it
NodeText(n) == n.text \o Concat([k \in DOMAIN n.items |-> n.items[k].text])

\* soup.find(...): the first element of the page among those the query
\* accepts, <<>> for None
Find(soup, accepted) ==
    LET hits == {i \in DOMAIN soup : soup[i] \in accepted}
    IN  IF hits = {} THEN <<>> ELSE <<soup[SetMin(hits)]>>

\* the elements of the page
Tags(soup) == {soup[i] : i \in DOMAIN soup}

\* re.compile(r'recipe.*title|title.*recipe', re.I)
IsTitleClass(n) ==
    \/ ContainsThen(Lower(n.class), T_recipe, W_title)
    \/ ContainsThen(Lower(n.class), W_title, T_recipe)

\* re.compile(r'recipe.*description|description', re.I)
IsDescriptionClass(n) ==
    \/ ContainsThen(Lower(n.class), T_recipe, K_description)
    \/ Contains(Lower(n.class), K_description)

\* ['ul', 'div'], class_=re.compile(r'ingredient', re.I)
IsIngredientsSection(n) ==
    /\ n.tag \in {"ul", "div"}
    /\ Contains(Lower(n.class), W_ingredient)

\* ['ol', 'div'], class_=re.compile(r'instruction|direction|method', re.I)
IsInstructionsSection(n) ==
    /\ n.tag \in {"ol", "div"}
    /\ \/ Contains(Lower(n.class), W_instruction)
       \/ Contains(Lower(n.class), W_direction)
       \/ Contains(Lower(n.class), W_method)

IsH1(n) == n.tag = "h1"

IsTitle(n) == n.tag = "title"

IsMetaDescription(n) == n.tag = "meta" /\ n.name = K_description

\* lines 81-85
NameCandidates(soup) ==
    <<Find(soup, {n \in Tags(soup) : IsH1(n)}),
      Find(soup, {n \in Tags(soup) : IsTitle(n)}),
      Find(soup, {n \in Tags(soup) : IsTitleClass(n)})>>

RECURSIVE FirstCandidateText(_)
\* a loop that stops at the first candidate found, blank or not
FirstCandidateText(cands) ==
    IF cands = <<>> THEN <<>>
    ELSE IF Head(cands) # <<>> THEN Strip(NodeText(Head(cands)[1]))
    ELSE FirstCandidateText(Tail(cands))

RECURSIVE FirstNonBlankText(_)
\* lines 86-89: the loop over the candidates
FirstNonBlankText(cands) ==
    IF cands = <<>> THEN <<>>
    ELSE IF Head(cands) # <<>> /\ Strip(NodeText(Head(cands)[1])) # <<>>
    THEN Strip(NodeText(Head(cands)[1]))
    ELSE FirstNonBlankText(Tail(cands))

\* lines 80-89
HtmlName(soup) == FirstNonBlankText(NameCandidates(soup))

\* candidate.get('content', candidate.text)
ContentOrText(n) == IF n.content # <<>> THEN n.content[1] ELSE NodeText(n)

RECURSIVE FirstNonBlankContent(_)
\* lines 97-102
FirstNonBlankContent(cands) ==
    IF cands = <<>> THEN <<>>
    ELSE IF Head(cands) # <<>> /\ Strip(ContentOrText(Head(cands)[1])) # <<>>
    THEN Strip(ContentOrText(Head(cands)[1]))
    ELSE FirstNonBlankContent(Tail(cands))

\* lines 92-102
HtmlDescription(soup) ==
    FirstNonBlankContent(<<Find(soup, {n \in Tags(soup) : IsDescriptionClass(n)}),
                           Find(soup, {n \in Tags(soup) : IsMetaDescription(n)})>>)

\* [item.text.strip() for item in section.find_all(['li', 'p'])
\*  if item.text.strip()], [] without a section
SectionItems(section) ==
    IF section = <<>> THEN <<>>
    ELSE LET found == SelectIdx(Len(section[1].items), 1,
                          [k \in DOMAIN section[1].items |->
                              section[1].items[k].tag \in {"li", "p"}])
         IN  StrippedNonEmpty(
                 [k \in DOMAIN found |-> Str(section[1].items[found[k]].text)]).val

\* lines 105-115
HtmlIngredients(soup) ==
    SectionItems(Find(soup, {n \in Tags(soup) : IsIngredientsSection(n)}))

\* lines 118-128
HtmlInstructions(soup) ==
    SectionItems(Find(soup, {n \in Tags(soup) : IsInstructionsSection(n)}))

\* _parse_html_recipe(soup, url)
parse_html_recipe(soup, url) ==
    Returned(Recipe(Str(HtmlName(soup)), Str(HtmlDescription(soup)),
                    HtmlIngredients(soup), HtmlInstructions(soup), url))

(* ------------------------- the pages fetched --------------------------- *)

Absent == [t |-> "absent", s |-> <<>>, v |-> <<>>]

SeqsUpTo(S, n) == UNION {[1..k -> S] : k \in 0..n}

\* a JSON object with the given members, the Absent ones left out
Object(members) ==
    Dict(LET idx == SelectIdx(Len(members), 1,
                        [k \in DOMAIN members |-> members[k].v[1] # Absent])
         IN  [k \in DOMAIN idx |-> members[idx[k]]])

RecipeObject(type, name, description, ingredients, instructions) ==
    Object(<<Member(K_type, type), Member(K_name, name),
             Member(K_description, description),
             Member(K_recipeIngredient, ingredients),
             Member(K_recipeInstructions, instructions)>>)

X_Article == <<"A","r","t","i","c","l","e">>

X_Flan == <<" ","F","l","a","n"," ">>

X_Sweet == <<"S","w","e","e","t">>

X_Flour == <<" ","2"," ","c","u","p","s"," ","f","l","o","u","r">>

X_Serves == <<"S","e","r","v","e","s"," ","4">>

X_Blank == <<" ","\n">>

X_Mix == <<"M","i","x"," ">>

X_Bake == <<" ","B","a","k","e">>

X_Stir == <<"S","t","i","r">>

IngredientLines == {Str(X_Flour), Str(X_Serves), Str(X_Blank)}

IngredientValues ==
    {List(xs) : xs \in SeqsUpTo(IngredientLines, MaxIngredients)}
    \cup {Absent, Str(X_Flour), Num, List(<<Num>>),
          Dict(<<Member(K_text, Str(X_Flour))>>)}

InstructionSteps ==
    {Str(X_Mix), Str(X_Blank),
     Dict(<<Member(K_type, Str(X_Stir)), Member(K_text, Str(X_Bake))>>),
     Dict(<<Member(K_name, Str(X_Stir))>>)}

InstructionValues ==
    {List(xs) : xs \in SeqsUpTo(InstructionSteps, MaxInstructions)}
    \cup {Absent, Str(X_Mix), Null,
          Dict(<<Member(K_type, Str(X_Stir)), Member(K_text, Str(X_Bake))>>)}

JsonObjects ==
    {RecipeObject(Str(T_Recipe), Str(X_Flan), Str(X_Sweet), ing,
                  List(<<Str(X_Mix), Str(X_Blank)>>)) :
        ing \in IngredientValues}
    \cup {RecipeObject(Str(T_Recipe), Str(X_Flan), Str(X_Sweet),
                       List(<<Str(X_Flour)>>), ins) :
            ins \in InstructionValues}
    \cup {RecipeObject(type, name, description, List(<<Str(X_Flour)>>),
                       List(<<Str(X_Mix)>>)) :
            type \in {Str(T_recipe), Str(T_Recipe)},
            name \in {Absent, Str(X_Flan), Null},
            description \in {Absent, Str(X_Blank), List(<<>>)}}
    \cup {RecipeObject(type, Str(X_Flan), Absent, List(<<Str(X_Flour)>>),
                       List(<<Str(X_Mix)>>)) :
            type \in {Absent, Str(X_Article), List(<<Str(T_Recipe)>>), Null}}

JsonValues ==
    JsonObjects
    \cup {List(<<o>>) : o \in JsonObjects}
    \cup {List(<<o, Str(X_Mix)>>) : o \in JsonObjects}
    \cup {List(<<>>), List(<<Num>>), Num, Null, Str(X_Mix), Str(K_type),
          List(<<List(<<Str(K_type)>>)>>)}

\* the first <script type="application/ld+json"> of the page: none, one
\* without a single text child (.string is None), or one holding text that
\* json.loads rejects or decodes to value
Blocks ==
    {[string |-> "absent", value |-> Null],
     [string |-> "None", value |-> Null],
     [string |-> "malformed", value |-> Null]}
    \cup {[string |-> "json", value |-> val] : val \in JsonValues}

Element(tag, class, text, content, name, items) ==
    [tag |-> tag, class |-> class, text |-> text, content |-> content,
     name |-> name, items |-> items]

Item(tag, text) == [tag |-> tag, text |-> text]

C_RecipeTitle == <<"R","e","c","i","p","e","-","T","i","t","l","e">>

C_Ingredients == <<"w","p","-","I","n","g","r","e","d","i","e","n","t","s">>

C_Directions == <<"d","i","r","e","c","t","i","o","n","s">>

C_Summary == <<"r","e","c","i","p","e","-","d","e","s","c","r","i","p","t","i","o","n">>

X_Pie == <<"\n","P","i","e"," ">>

X_Tart == <<"T","a","r","t">>

X_Cake == <<"C","a","k","e">>

X_Salt == <<" ","s","a","l","t">>

X_Yields == <<"y","i","e","l","d","s"," ","6">>

X_Whisk == <<"W","h","i","s","k">>

X_Rich == <<"R","i","c","h">>

Elements ==
    {Element("h1", <<>>, X_Blank, <<>>, <<>>, <<>>),
     Element("h1", <<>>, X_Pie, <<>>, <<>>, <<>>),
     Element("title", <<>>, X_Tart, <<>>, <<>>, <<>>),
     Element("span", C_RecipeTitle, X_Cake, <<>>, <<>>, <<>>),
     Element("div", C_Ingredients, <<>>, <<>>, <<>>,
             <<Item("li", X_Salt), Item("span", X_Cake), Item("p", X_Blank),
               Item("li", X_Yields)>>),
     Element("ol", C_Directions, <<>>, <<>>, <<>>,
             <<Item("li", X_Blank), Item("li", X_Whisk), Item("p", X_Bake)>>),
     Element("div", C_Summary, X_Blank, <<>>, <<>>, <<>>),
     Element("meta", <<>>, <<>>, <<X_Rich>>, K_description, <<>>)}

Pages == SeqsUpTo(Elements, MaxNodes)

RecipeUrl == "https://example.com/recipe"

NoResponse == [status |-> "none", block |-> [string |-> "absent", value |-> Null],
               html |-> <<>>]

(* --------------------------- the state --------------------------------- *)
(* pc       : where the call of parse_recipe stands                        *)
(* response : what requests.get produced for the url                       *)
(* data     : the local variable data of parse_recipe, <<>> while unset    *)
(* ran      : the extractors that have been called                         *)
(* outcome  : how the call ended: the Recipe returned or the exception     *)

Init ==
    /\ pc = "start"
    /\ response = NoResponse
    /\ data = <<>>
    /\ ran = {}
    /\ outcome = Pending

\* fetch_page, lines 25-28: the request succeeds and the page text comes back
fetch_page_ok ==
    /\ pc = "start"
    /\ \E block \in Blocks : \E html \in Pages :
          response' = [status |-> "ok", block |-> block, html |-> html]
    /\ pc' = "find"
    /\ UNCHANGED <<data, ran, outcome>>

\* a fetch failure swallowed into an empty result
FetchFailureAsEmptyRecipe ==
    Returned(Recipe(Str(<<>>), Str(<<>>), <<>>, <<>>, RecipeUrl))

\* what the failed fetch leaves the caller with: line 30 raises
\* Exception("Failed to fetch recipe page: ..."), the FetchError of the spec
FetchFailure == Raised("FetchError")

\* fetch_page, lines 29-30: requests raises (network failure, or
\* raise_for_status on a non-success status); parse_recipe does not catch it
fetch_page_fails ==
    /\ pc = "start"
    /\ response' = [NoResponse EXCEPT !.status = "error"]
    /\ outcome' = FetchFailure
    /\ pc' = "done"
    /\ UNCHANGED <<data, ran>>

\* lines 35-39: soup.find('script', type='application/ld+json')
find_schema_data ==
    /\ pc = "find"
    /\ pc' = IF response.block.string = "absent" THEN "html" ELSE "loads"
    /\ UNCHANGED <<response, data, ran, outcome>>

\* line 42 with the handler of lines 47-48: json.loads(schema_data.string)
json_loads ==
    /\ pc = "loads"
    /\ CASE response.block.string = "None" ->
              /\ outcome' = Raised("TypeError")
              /\ pc' = "done"
              /\ UNCHANGED data
         [] response.block.string = "malformed" ->
              /\ pc' = "html"
              /\ UNCHANGED <<data, outcome>>
         [] OTHER ->
              /\ data' = <<response.block.value>>
              /\ pc' = "select"
              /\ UNCHANGED outcome
    /\ UNCHANGED <<response, ran>>

\* data[-1] in the place of data[0]
LastElement(val) == IF val.v = <<>> THEN <<>> ELSE <<val.v[Len(val.v)]>>

\* data[0] of a list: <<>> when the list is empty (IndexError)
FirstElement(val) == IF val.v = <<>> THEN <<>> ELSE <<val.v[1]>>

\* lines 43-44: if isinstance(data, list): data = data[0]
select_first ==
    /\ pc = "select"
    /\ IF data[1].t = "list"
       THEN IF FirstElement(data[1]) = <<>>
            THEN /\ outcome' = Raised("IndexError")
                 /\ pc' = "done"
                 /\ UNCHANGED data
            ELSE /\ data' = FirstElement(data[1])
                 /\ pc' = "type"
                 /\ UNCHANGED outcome
       ELSE /\ pc' = "type"
            /\ UNCHANGED <<data, outcome>>
    /\ UNCHANGED <<response, ran>>

\* '@type' in data: "yes", "no", or "TypeError" when data is no container
InData(val) ==
    CASE val.t = "dict" -> IF HasKey(val, K_type) THEN "yes" ELSE "no"
      [] val.t = "list" ->
            IF \E k \in DOMAIN val.v : val.v[k] = Str(K_type) THEN "yes" ELSE "no"
      [] val.t = "str" -> IF Contains(val.s, K_type) THEN "yes" ELSE "no"
      [] OTHER -> "TypeError"

\* a comparison with 'Recipe' alone
TypeIsCapitalRecipe(val) ==
    IF val.t # "dict" THEN "TypeError"
    ELSE IF Get(val, K_type, Null) = Str(T_Recipe) THEN "yes" ELSE "no"

\* data['@type'] in ['Recipe', 'recipe'], once '@type' in data holds:
\* "yes", "no", or "TypeError" when data is a list or a string
TypeIsRecipe(val) ==
    IF val.t # "dict" THEN "TypeError"
    ELSE IF Get(val, K_type, Null) \in {Str(T_Recipe), Str(T_recipe)}
    THEN "yes" ELSE "no"

\* line 45, both conjuncts
IsRecipe(val) == IF InData(val) = "yes" THEN TypeIsRecipe(val) ELSE InData(val)

\* line 45: the test that chooses between the two extractors
check_type ==
    /\ pc = "type"
    /\ CASE IsRecipe(data[1]) = "yes" ->
              /\ pc' = "schema"
              /\ UNCHANGED outcome
         [] IsRecipe(data[1]) = "no" ->
              /\ pc' = "html"
              /\ UNCHANGED outcome
         [] OTHER ->
              /\ outcome' = Raised(IsRecipe(data[1]))
              /\ pc' = "done"
    /\ UNCHANGED <<response, data, ran>>

\* line 46: return self._parse_schema_recipe(data, url); the exceptions it
\* can raise are not among those of line 47
schema_recipe ==
    /\ pc = "schema"
    /\ outcome' = parse_schema_recipe(data[1], RecipeUrl)
    /\ ran' = ran \cup {"schema"}
    /\ pc' = "done"
    /\ UNCHANGED <<response, data>>

\* line 51: return self._parse_html_recipe(soup, url)
html_recipe ==
    /\ pc = "html"
    /\ outcome' = parse_html_recipe(response.html, RecipeUrl)
    /\ ran' = ran \cup {"html"}
    /\ pc' = "done"
    /\ UNCHANGED <<response, data>>

Next ==
    \/ fetch_page_ok
    \/ fetch_page_fails
    \/ find_schema_data
    \/ json_loads
    \/ select_first
    \/ check_type
    \/ schema_recipe
    \/ html_recipe

Spec == Init /\ [][Next]_vars


(* ------------------------------ claims --------------------------------- *)

\* the record the structured block stands for, <<>> when there is none: the
\* decoded value, or the first element when the value is an array
BlockRecord ==
    LET b == response.block
    IN  IF b.string # "json" THEN <<>>
        ELSE IF b.value.t = "list"
             THEN (IF b.value.v = <<>> THEN <<>> ELSE <<b.value.v[1]>>)
             ELSE <<b.value>>

\* the block stands for an object whose @type is 'Recipe' or 'recipe'
BlockIsRecipe ==
    /\ BlockRecord # <<>>
    /\ BlockRecord[1].t = "dict"
    /\ \E k \in DOMAIN BlockRecord[1].v :
          /\ BlockRecord[1].v[k].s = K_type
          /\ BlockRecord[1].v[k].v[1] \in {Str(T_Recipe), Str(T_recipe)}

\* C1: every call ends with a Recipe or with FetchError, and once the fetch
\* has succeeded it ends with a Recipe: no other exception reaches the caller
C1_RecipeOrFetchError ==
    pc = "done" =>
        /\ outcome.kind \in {"Recipe", "FetchError"}
        /\ response.status = "ok" => outcome.kind = "Recipe"

\* C2: when the structured block stands for a Recipe / recipe object, the
\* call ends exactly as the structured extractor does on that object, and the
\* HTML extractor has not run
C2_StructuredExclusive ==
    (pc = "done" /\ response.status = "ok" /\ BlockIsRecipe) =>
        /\ outcome = parse_schema_recipe(BlockRecord[1], RecipeUrl)
        /\ ran = {"schema"}

\* a recipe object alone, beside an <h1> that names another dish: the
\* name returned is the object's
C2_Witness ==
    /\ pc = "done"
    /\ BlockIsRecipe
    /\ response.block.value.t = "dict"
    /\ Get(response.block.value, K_type, Null) = Str(T_recipe)
    /\ \E k \in DOMAIN response.html : response.html[k].text = X_Pie
    /\ outcome.kind = "Recipe"
    /\ outcome.recipe[1].name = Str(Strip(X_Flan))

\* C5: when the fetch fails the call ends with FetchError, returns no Recipe,
\* and neither extractor has run
C5_FetchFailure ==
    (pc = "done" /\ response.status = "error") =>
        /\ outcome.kind = "FetchError"
        /\ outcome.recipe = <<>>
        /\ ran = {}

C5_Witness ==
    /\ pc = "done"
    /\ response.status = "error"
    /\ outcome.kind = "FetchError"

\* C6: when the block is an array whose first element is a Recipe / recipe
\* object, the call ends as the structured extractor does on that first
\* element, that is, as it ends for a block holding the object alone
C6_FirstElementSelected ==
    (/\ pc = "done"
     /\ response.block.string = "json"
     /\ response.block.value.t = "list"
     /\ BlockIsRecipe) =>
        /\ data = <<response.block.value.v[1]>>
        /\ outcome = parse_schema_recipe(response.block.value.v[1], RecipeUrl)

\* an array of two elements, the recipe object first, and a Recipe returned
C6_Witness ==
    /\ pc = "done"
    /\ response.block.string = "json"
    /\ response.block.value.t = "list"
    /\ Len(response.block.value.v) = 2
    /\ BlockIsRecipe
    /\ outcome.kind = "Recipe"
    /\ ran = {"schema"}

\* the text of an entry is empty or whitespace only
IsBlank(s) == \A k \in DOMAIN s : s[k] \in Whitespace

\* C4: in every Recipe returned, by either path, no entry of ingredients or
\* of instructions is empty or whitespace only
C4_NoBlankEntries ==
    (pc = "done" /\ outcome.kind = "Recipe") =>
        /\ \A k \in DOMAIN outcome.recipe[1].ingredients :
              ~IsBlank(outcome.recipe[1].ingredients[k].s)
        /\ \A k \in DOMAIN outcome.recipe[1].instructions :
              ~IsBlank(outcome.recipe[1].instructions[k].s)

\* the structured path, fed a whitespace-only ingredient and a whitespace-only
\* step beside real ones, has returned a Recipe
C4_Witness ==
    /\ pc = "done"
    /\ outcome.kind = "Recipe"
    /\ ran = {"schema"}
    /\ Get(data[1], K_recipeIngredient, Null) = List(<<Str(X_Blank), Str(X_Flour)>>)
    /\ Get(data[1], K_recipeInstructions, Null) = List(<<Str(X_Mix), Str(X_Blank)>>)
    /\ Len(outcome.recipe[1].ingredients) = 1
    /\ Len(outcome.recipe[1].instructions) = 1

\* the trimmed text of the first element of the page with one of the given
\* positions, <<>> when there is none
C9_TrimmedFirst(positions) ==
    IF positions = {} THEN <<>>
    ELSE Strip(NodeText(response.html[
             CHOOSE i \in positions : \A j \in positions : i <= j]))

\* C9: in the heuristic path the name is the trimmed text of the first h1 when
\* that is not empty, else that of the title element when that is not empty,
\* else that of the first element with a recipe-title class when that is not
\* empty, else the empty string, wherever those elements stand in the page
C9_HeuristicName ==
    (pc = "done" /\ "html" \in ran) =>
        LET h1 == C9_TrimmedFirst({i \in DOMAIN response.html :
                                      response.html[i].tag = "h1"})
            title == C9_TrimmedFirst({i \in DOMAIN response.html :
                                      response.html[i].tag = "title"})
            class == C9_TrimmedFirst({i \in DOMAIN response.html :
                                      IsTitleClass(response.html[i])})
        IN  outcome.recipe[1].name =
                Str(IF h1 # <<>> THEN h1
                    ELSE IF title # <<>> THEN title
                    ELSE class)

\* an h1 of whitespace only before the title element: the title is the name
C9_Witness ==
    /\ pc = "done"
    /\ "html" \in ran
    /\ Len(response.html) = 2
    /\ response.html[1].tag = "h1"
    /\ response.html[1].text = X_Blank
    /\ response.html[2].tag = "title"
    /\ outcome.recipe[1].name = Str(X_Tart)

W_serving == <<"s","e","r","v","i","n","g">>

W_serves == <<"s","e","r","v","e","s">>

W_yields == <<"y","i","e","l","d","s">>

\* the validity filter of the specification rejects the line
IsServingNote(s) ==
    \/ Contains(Lower(s), W_serving)
    \/ Contains(Lower(s), W_serves)
    \/ Contains(Lower(s), W_yields)

\* C3: no ingredient of a returned Recipe comes from a line that contains
\* 'serving', 'serves' or 'yields' in any case
C3_NoServingNotes ==
    (pc = "done" /\ outcome.kind = "Recipe") =>
        \A k \in DOMAIN outcome.recipe[1].ingredients :
            ~IsServingNote(outcome.recipe[1].ingredients[k].s)

\* the structured block is present and is one of the unusable kinds the claim
\* lists: nothing json.loads can decode, an object without @type, an object
\* whose @type is neither 'Recipe' nor 'recipe'
C8_Unusable ==
    \/ response.block.string \in {"None", "malformed"}
    \/ /\ BlockRecord # <<>>
       /\ BlockRecord[1].t = "dict"
       /\ ~BlockIsRecipe

\* C8: an unusable structured block is discarded and the call ends with the
\* heuristic extractor's result for the page
C8_FallsBackToHtml ==
    (pc = "done" /\ response.status = "ok" /\ C8_Unusable) =>
        /\ outcome = parse_html_recipe(response.html, RecipeUrl)
        /\ ran = {"html"}

\* the instructions the claim describes for the value raw of
\* recipeInstructions (Absent when the field is missing)
C10_Claimed(raw) ==
    LET steps == CASE raw = Absent -> <<>>
                   [] raw.t = "str" -> <<raw>>
                   [] OTHER ->
                        [k \in DOMAIN raw.v |->
                            IF raw.v[k].t = "dict" /\ HasKey(raw.v[k], K_text)
                            THEN Get(raw.v[k], K_text, Null)
                            ELSE raw.v[k]]
        trimmed == [k \in DOMAIN steps |->
                       IF steps[k].t = "str" THEN Str(Strip(steps[k].s))
                       ELSE steps[k]]
        kept == SelectIdx(Len(trimmed), 1,
                          [k \in DOMAIN trimmed |-> trimmed[k] # Str(<<>>)])
    IN  [k \in DOMAIN kept |-> trimmed[kept[k]]]

\* C10: in the structured path, when recipeInstructions is missing, a string,
\* or a sequence of strings and mappings, and the other fields are well
\* formed, the call returns a Recipe whose instructions are: the string alone,
\* or each string and each mapping's text (the mapping itself when it has no
\* text), trimmed, the empty ones dropped, in the original order
C10_Instructions ==
    (/\ pc = "done"
     /\ "schema" \in ran
     /\ Get(data[1], K_recipeInstructions, Absent).t \in {"absent", "str", "list"}
     /\ StrippedField(data[1], K_name).err = "none"
     /\ StrippedField(data[1], K_description).err = "none"
     /\ SchemaIngredients(data[1]).err = "none") =>
        /\ outcome.kind = "Recipe"
        /\ outcome.recipe[1].instructions =
              C10_Claimed(Get(data[1], K_recipeInstructions, Absent))

Digits == {"0","1","2","3","4","5","6","7","8","9"}

Letters == {UpperCase[i] : i \in DOMAIN UpperCase}
           \cup {LowerCase[i] : i \in DOMAIN LowerCase}

\* a trimmed capture group: None (absent) when it is empty
Group(s) == IF Strip(s) = <<>> THEN Null ELSE Str(Strip(s))

\* Ingredient(quantity=..., unit=..., name=...)
Ingredient(quantity, unit, name) ==
    [t |-> "Ingredient", s |-> <<>>, v |-> <<quantity, unit, name>>]

\* the Ingredient Decomposer of the specification: quantity, a greedy leading
\* run of digits, '/', '.', ',' and whitespace; unit, a greedy run of letters;
\* one whitespace character; name, the rest. Without a match: the raw line
Decompose(raw) ==
    LET splits == {ab \in (0..Len(raw)) \X (0..Len(raw)) :
                      /\ ab[1] + ab[2] + 1 <= Len(raw)
                      /\ \A i \in 1..ab[1] :
                            raw[i] \in Digits \cup {"/", ".", ","} \cup Whitespace
                      /\ \A i \in (ab[1] + 1)..(ab[1] + ab[2]) : raw[i] \in Letters
                      /\ raw[ab[1] + ab[2] + 1] \in Whitespace}
    IN  IF splits = {}
        THEN Ingredient(Null, Null, Str(raw))
        ELSE LET a == SetMax({ab[1] : ab \in splits})
                 b == SetMax({ab[2] : ab \in {x \in splits : x[1] = a}})
             IN  Ingredient(Group(SubSeq(raw, 1, a)),
                            Group(SubSeq(raw, a + 1, a + b)),
                            Str(Strip(SubSeq(raw, a + b + 2, Len(raw)))))

\* the raw ingredient lines of the page: those of recipeIngredient in the
\* structured path, the li / p texts of the ingredient container otherwise
C7_RawLines ==
    IF "schema" \in ran
    THEN LET raw == Get(data[1], K_recipeIngredient, List(<<>>))
         IN  IF raw.t = "str" THEN {raw.s}
             ELSE {raw.v[k].s : k \in DOMAIN raw.v}
    ELSE LET section == Find(response.html, {n \in Tags(response.html) :
                                                 IsIngredientsSection(n)})
         IN  IF section = <<>> THEN {}
             ELSE {section[1].items[k].text : k \in DOMAIN section[1].items}

\* C7: every ingredient of a returned Recipe is an Ingredient record
\* (quantity, unit, name), the decomposition of a raw line of the page
C7_IngredientsDecomposed ==
    (pc = "done" /\ outcome.kind = "Recipe") =>
        \A k \in DOMAIN outcome.recipe[1].ingredients :
            /\ outcome.recipe[1].ingredients[k].t = "Ingredient"
            /\ \E raw \in C7_RawLines :
                  outcome.recipe[1].ingredients[k] = Decompose(raw)

====
